---- MODULE Spec2Model ----
(***************************************************************************)
(* State-machine model of src/src/utils/training/image_classification.py:  *)
(*   - the four epoch aggregators (train_epoch, train_epoch_coordvit,      *)
(*     eval, eval_coordvit),                                               *)
(*   - train_test_loop (checkpoint / resume / plot),                       *)
(*   - train_eval_test_loop (early stopping).                              *)
(* Python floats are modelled as exact rationals [k, n, d] plus the two    *)
(* infinities; the model, optimizer, criterion, scheduler, plotter and the *)
(* data loaders are external collaborators and are modelled by what the    *)
(* orchestration code observes of them.                                    *)
(***************************************************************************)
EXTENDS Integers, Sequences, FiniteSets, TLC

\* ------------------------------------------------------------------ bounds
MaxBatches == 2
MaxEpochs == 3
MaxCalls == 2
MaxEpochsES == 4
MaxPatience == 2

\* ------------------------------------------------------------------ numbers
RECURSIVE GCD(_, _)
GCD(a, b) == IF b = 0 THEN a ELSE GCD(b, a % b)

Abs(x) == IF x < 0 THEN -x ELSE x

\* A finite float n/d in lowest terms, d > 0.
F(n, d) ==
    LET g == GCD(Abs(n), d)
    IN  [k |-> "fin", n |-> n \div g, d |-> d \div g]

IntF(n) == F(n, 1)

\* float("-inf") and float("inf")
NegInf == [k |-> "-inf", n |-> -1, d |-> 0]
PosInf == [k |-> "inf", n |-> 1, d |-> 0]

\* What a Python division by zero produces instead of a number.
ZeroDivisionError == [k |-> "ZeroDivisionError", n |-> 0, d |-> 0]

\* a + b on finite floats (total_loss += loss.item()).
FAdd(a, b) == F(a.n * b.d + b.n * a.d, a.d * b.d)

\* a / t for a finite float a and an int t (total_loss /= total, correct / total).
FDivInt(a, t) == IF t = 0 THEN ZeroDivisionError ELSE F(a.n, a.d * t)

\* a > b on floats, infinities included.
FGreater(a, b) ==
    CASE a.k = "-inf" -> FALSE
      [] b.k = "inf"  -> FALSE
      [] a.k = "inf"  -> TRUE
      [] b.k = "-inf" -> TRUE
      [] OTHER        -> a.n * b.d > b.n * a.d

\* a >= b on floats.
FGeq(a, b) == ~FGreater(b, a)

\* ------------------------------------------------------------------ state
VARIABLES
    \* one call of an epoch aggregator
    fn, loader, normalise_loss, pcA, mode, bidx, correct, total_loss, total,
    opt_steps, ndiv, ret,
    \* the model's parameters, the optimizer updates of the call, and what
    \* is kept of a first call when a second one follows it
    params, updates, call_no, seen, first,
    \* train_test_loop, the checkpoint location and the calls made so far
    disk, args, pc, model, train_accs, test_accs, train_losses, test_losses,
    i, epoch, log, calls, start_disk, returned,
    \* train_eval_test_loop, and a second run for the comparison of two runs
    es, es2

aggVars == <<fn, loader, normalise_loss, pcA, mode, bidx, correct, total_loss,
             total, opt_steps, ndiv, ret, params, updates, call_no, seen, first>>
ttVars == <<disk, args, pc, model, train_accs, test_accs, train_losses,
            test_losses, i, epoch, log, calls, start_disk, returned>>
esVars == <<es, es2>>
vars == <<aggVars, ttVars, esVars>>

None == [k |-> "None", n |-> 0, d |-> 0]

\* ------------------------------------------------------------------ epoch aggregators
AggFns == {"train_epoch", "train_epoch_coordvit", "eval", "eval_coordvit"}
TrainFns == {"train_epoch", "train_epoch_coordvit"}
EvalFns == {"eval", "eval_coordvit"}
CoordFns == {"train_epoch_coordvit", "eval_coordvit"}

\* The other variant of the same pass.
Counterpart(f) ==
    CASE f = "train_epoch" -> "train_epoch_coordvit"
      [] f = "train_epoch_coordvit" -> "train_epoch"
      [] f = "eval" -> "eval_coordvit"
      [] OTHER -> "eval"

\* len(y) of the batches a loader may yield; 0 is an empty batch.
BatchSizes == {0, 3, 5}
\* criterion(out, y).item() of a batch.
BatchLosses == {F(3, 2), F(2, 1)}

\* What one batch contributes under the model as it is when the batch is
\* processed: len(y), criterion(out, y).item() and
\* out.argmax(dim=-1).eq(y).sum().item().
Batches ==
    UNION { { [size |-> s, loss |-> l, correct |-> c] :
                l \in BatchLosses, c \in 0..s } : s \in BatchSizes }

RECURSIVE SeqsUpTo(_, _)
SeqsUpTo(S, n) ==
    IF n = 0 THEN {<<>>}
    ELSE LET shorter == SeqsUpTo(S, n - 1)
         IN  shorter \cup { Append(q, x) : q \in {r \in shorter : Len(r) = n - 1}, x \in S }

Loaders == SeqsUpTo(Batches, MaxBatches)

\* The tuple an aggregator returns.
Result(l, a) == [loss |-> l, acc |-> a]

\* The value returned for a loader of 0 samples: the ints 0 and 1.
Sentinel == Result(IntF(0), IntF(1))

NoResult == Result(None, None)

\* Nothing kept of a first call.
NoFirst == [fn |-> "none", ret |-> NoResult, updates |-> <<>>, opt_steps |-> 0]

AggIdle ==
    /\ fn = "none" /\ loader = <<>> /\ normalise_loss = FALSE /\ pcA = "idle"
    /\ mode = "none" /\ bidx = 0 /\ correct = 0 /\ total_loss = IntF(0)
    /\ total = 0 /\ opt_steps = 0 /\ ndiv = 0 /\ ret = NoResult
    /\ params = 0 /\ updates = <<>> /\ call_no = 0 /\ seen = <<>> /\ first = NoFirst

AggInit ==
    /\ fn \in AggFns
    /\ loader \in Loaders
    /\ normalise_loss \in BOOLEAN
    /\ pcA = "enter"
    /\ mode = "none" /\ bidx = 0 /\ correct = 0 /\ total_loss = IntF(0)
    /\ total = 0 /\ opt_steps = 0 /\ ndiv = 0 /\ ret = NoResult
    /\ params = 0 /\ updates = <<>> /\ call_no = 1 /\ seen = <<>> /\ first = NoFirst

\* model.train() / model.eval(); correct, total_loss, total = 0, 0, 0
AggEnter ==
    /\ pcA = "enter"
    /\ mode' = IF fn \in TrainFns THEN "train" ELSE "eval"
    /\ correct' = 0 /\ total_loss' = IntF(0) /\ total' = 0
    /\ pcA' = "loop"
    /\ UNCHANGED <<fn, loader, normalise_loss, bidx, opt_steps, ndiv, ret>>
    /\ UNCHANGED <<params, updates, call_no, seen, first>>
    /\ UNCHANGED <<ttVars, esVars>>

\* The tensors of batch j of the data.
Part(name, j) == [part |-> name, batch |-> j]

\* Batch j as the loader given to f yields it: (x, y), or (x, coords, mask, y).
Item(f, j) ==
    IF f \in CoordFns
    THEN <<Part("x", j), Part("coords", j), Part("mask", j), Part("y", j)>>
    ELSE <<Part("x", j), Part("y", j)>>

\* The coordinate-aware unpacking with the label taken from batch[1].
UnpackLabelSecond(f, t) == [x |-> t[1], y |-> t[2]]

\* x, y = batch[0], batch[1], or x, coords, mask, y = batch[0], ..., batch[3]:
\* the input and the label the pass computes with (the model ignores
\* coords and mask).
Unpack(f, t) ==
    IF f \in CoordFns THEN [x |-> t[1], y |-> t[4]] ELSE [x |-> t[1], y |-> t[2]]

\* The optimizer is stepped by every pass.
StepsOptimizerAlways(f) == TRUE

\* optimizer.zero_grad() ... loss.backward(); optimizer.step(): the train passes only.
StepsOptimizer(f) == f \in TrainFns

\* What the forward pass and the criterion depend on.
Ctx(f, j, p, m) ==
    LET u == Unpack(f, Item(f, j))
    IN  [x |-> u.x, y |-> u.y, params |-> p, mode |-> m]

\* What batch j may contribute: the model and the criterion are functions,
\* so a batch processed again with the input, label, parameters and mode
\* of the first call contributes what it did then; otherwise anything of
\* its size.
Outcomes(j, ctx) ==
    IF call_no = 1 \/ (j <= Len(seen) /\ seen[j] = ctx)
    THEN {loader[j]}
    ELSE {b \in Batches : b.size = loader[j].size}

\* One iteration of `for batch in loader`.
AggBatch ==
    /\ pcA = "loop"
    /\ bidx < Len(loader)
    /\ LET ctx == Ctx(fn, bidx + 1, params, mode)
       IN  /\ \E batch \in Outcomes(bidx + 1, ctx) :
                /\ total_loss' = FAdd(total_loss, batch.loss)
                /\ correct' = correct + batch.correct
                /\ total' = total + batch.size
           /\ seen' = IF call_no = 1 THEN Append(seen, ctx) ELSE seen
           /\ IF StepsOptimizer(fn)
              THEN /\ opt_steps' = opt_steps + 1
                   /\ updates' = Append(updates, ctx)
                   /\ params' = params + 1
              ELSE UNCHANGED <<opt_steps, updates, params>>
    /\ bidx' = bidx + 1
    /\ UNCHANGED <<fn, loader, normalise_loss, pcA, mode, ndiv, ret, call_no, first>>
    /\ UNCHANGED <<ttVars, esVars>>

\* AggResult without the `if total == 0` guard.
AggResultNoGuard(tl, c, t, norm) ==
    [ret |-> Result(IF norm THEN FDivInt(tl, t) ELSE tl, FDivInt(IntF(c), t)),
     ndiv |-> IF norm THEN 2 ELSE 1]

\* AggResult with the loss divided whatever normalise_loss says.
AggResultAlwaysNormalised(tl, c, t, norm) ==
    IF t = 0
    THEN [ret |-> Sentinel, ndiv |-> 0]
    ELSE [ret |-> Result(FDivInt(tl, t), FDivInt(IntF(c), t)), ndiv |-> 2]

\* The code after the loop: the value returned and the number of divisions
\* by `total` it took.
AggResult(tl, c, t, norm) ==
    IF t = 0
    THEN [ret |-> Sentinel, ndiv |-> 0]
    ELSE [ret |-> Result(IF norm THEN FDivInt(tl, t) ELSE tl, FDivInt(IntF(c), t)),
          ndiv |-> IF norm THEN 2 ELSE 1]

AggReturn ==
    /\ pcA = "loop"
    /\ bidx = Len(loader)
    /\ LET r == AggResult(total_loss, correct, total, normalise_loss)
       IN  ret' = r.ret /\ ndiv' = r.ndiv
    /\ pcA' = "done"
    /\ UNCHANGED <<fn, loader, normalise_loss, mode, bidx, correct, total_loss,
                   total, opt_steps>>
    /\ UNCHANGED <<params, updates, call_no, seen, first>>
    /\ UNCHANGED <<ttVars, esVars>>

\* A second call over the same data: the same eval pass again on the same
\* model, or the other variant of the pass on a model with the parameters
\* the first call started from.
AggAgain ==
    /\ pcA = "done"
    /\ call_no = 1
    /\ \E f \in {Counterpart(fn)} \cup ({fn} \cap EvalFns) :
          /\ fn' = f
          /\ params' = IF f = fn THEN params ELSE 0
    /\ first' = [fn |-> fn, ret |-> ret, updates |-> updates, opt_steps |-> opt_steps]
    /\ call_no' = 2
    /\ pcA' = "enter"
    /\ bidx' = 0 /\ opt_steps' = 0 /\ updates' = <<>> /\ ndiv' = 0 /\ ret' = NoResult
    /\ UNCHANGED <<loader, normalise_loss, mode, correct, total_loss, total, seen>>
    /\ UNCHANGED <<ttVars, esVars>>

AggNext == AggEnter \/ AggBatch \/ AggReturn \/ AggAgain
\* ------------------------------------------------------------------ train_test_loop
\* What train_epoch_fn and eval_fn, the injected strategies, may return.
TrainResults == {Result(F(7, 16), F(1, 2)), Result(F(1, 4), F(5, 8))}
TestResults == {Result(F(3, 8), F(3, 4))}

NoEpoch == [train |-> NoResult, test |-> NoResult]

NoMetrics == <<<<>>, <<>>, <<>>, <<>>>>

\* The checkpoint location: the directory, model.pt (the state dict, here the
\* number of training passes applied to it) and metrics.pkl (the pickled
\* tuple).
EmptyDisk ==
    [dir |-> FALSE,
     model_pt |-> [exists |-> FALSE, state |-> 0],
     metrics_pkl |-> [exists |-> FALSE, data |-> NoMetrics]]

NoArgs == [num_epochs |-> 0, save_path |-> "None", plot |-> FALSE, lr_scheduler |-> FALSE]

TTArgs ==
    [num_epochs : 0..MaxEpochs, save_path : {"None", "ckpt/"},
     plot : BOOLEAN, lr_scheduler : BOOLEAN]

Ev(op, e) == [op |-> op, epoch |-> e, metrics |-> None]

Running ==
    {"assert", "resume", "loop", "train", "eval", "sched", "append",
     "save_model", "save_metrics", "plot"}
Ended == {"idle", "returned", "AssertionError", "TypeError", "Exception", "killed"}

TTIdle ==
    /\ disk = EmptyDisk /\ args = NoArgs /\ pc = "idle" /\ model = 0
    /\ train_accs = <<>> /\ test_accs = <<>> /\ train_losses = <<>>
    /\ test_losses = <<>> /\ i = 0 /\ epoch = NoEpoch /\ log = <<>>
    /\ calls = 0 /\ start_disk = EmptyDisk /\ returned = NoMetrics

\* A caller invokes train_test_loop with a freshly constructed model.
TTCall ==
    /\ pc \in Ended
    /\ es.pc = "idle"
    /\ calls < MaxCalls
    /\ args' \in TTArgs
    /\ calls' = calls + 1
    /\ model' = 0
    /\ train_accs' = <<>> /\ test_accs' = <<>> /\ train_losses' = <<>>
    /\ test_losses' = <<>>
    /\ i' = 0 /\ epoch' = NoEpoch /\ log' = <<>> /\ returned' = NoMetrics
    /\ start_disk' = disk
    /\ pc' = "assert"
    /\ UNCHANGED disk
    /\ UNCHANGED <<aggVars, esVars>>

\* The assertion not evaluated.
AssertSkipped(a) == TRUE

\* assert save_path is not None or plot == False
AssertHolds(a) == a.save_path # "None" \/ a.plot = FALSE

TTAssert ==
    /\ pc = "assert"
    /\ pc' = IF AssertHolds(args) THEN "resume" ELSE "AssertionError"
    /\ UNCHANGED <<disk, args, model, train_accs, test_accs, train_losses,
                   test_losses, i, epoch, log, calls, start_disk, returned>>
    /\ UNCHANGED <<aggVars, esVars>>

\* The range started at len(train_accs).
FirstEpochOffByOne(accs) == Len(accs)

\* range(1+len(train_accs), num_epochs+1): its first value.
FirstEpoch(accs) == 1 + Len(accs)

\* The resume block: what it leaves in memory and on disk, and what it read.
Resume(a, d, m) ==
    IF a.save_path = "None"
    THEN [disk |-> d, model |-> m, metrics |-> NoMetrics, log |-> <<>>]
    ELSE [disk |-> [d EXCEPT !.dir = TRUE],
          model |-> IF d.model_pt.exists THEN d.model_pt.state ELSE m,
          metrics |-> IF d.metrics_pkl.exists THEN d.metrics_pkl.data ELSE NoMetrics,
          log |-> <<Ev("makedirs", 0)>>
                  \o (IF d.model_pt.exists THEN <<Ev("load_model", 0)>> ELSE <<>>)
                  \o (IF d.metrics_pkl.exists THEN <<Ev("load_metrics", 0)>> ELSE <<>>)]

TTResume ==
    /\ pc = "resume"
    /\ LET r == Resume(args, disk, model)
       IN  /\ disk' = r.disk
           /\ model' = r.model
           \* train_accs, test_accs, train_losses, test_losses = metrics
           /\ train_accs' = r.metrics[1]
           /\ test_accs' = r.metrics[2]
           /\ train_losses' = r.metrics[3]
           /\ test_losses' = r.metrics[4]
           /\ log' = log \o r.log
           /\ i' = FirstEpoch(r.metrics[1])
    /\ pc' = "loop"
    /\ UNCHANGED <<args, epoch, calls, start_disk, returned>>
    /\ UNCHANGED <<aggVars, esVars>>

\* The head of a loop that runs its body at least once.
TTLoopAtLeastOnce ==
    /\ pc = "loop"
    /\ IF i <= args.num_epochs \/ (\A j \in 1..Len(log) : log[j].op # "train")
       THEN pc' = "train" /\ returned' = returned
       ELSE /\ pc' = "returned"
            /\ returned' = <<train_losses, train_accs, test_losses, test_accs>>
    /\ UNCHANGED <<disk, args, model, train_accs, test_accs, train_losses,
                   test_losses, i, epoch, log, calls, start_disk>>
    /\ UNCHANGED <<aggVars, esVars>>

\* The head of `for i in range(...)`: the next epoch, or the return.
TTLoop ==
    /\ pc = "loop"
    /\ IF i <= args.num_epochs
       THEN pc' = "train" /\ returned' = returned
       ELSE /\ pc' = "returned"
            /\ returned' = <<train_losses, train_accs, test_losses, test_accs>>
    /\ UNCHANGED <<disk, args, model, train_accs, test_accs, train_losses,
                   test_losses, i, epoch, log, calls, start_disk>>
    /\ UNCHANGED <<aggVars, esVars>>

\* train_loss, train_acc = train_epoch_fn(...): one more pass over the model.
TTTrain ==
    /\ pc = "train"
    /\ \E r \in TrainResults : epoch' = [train |-> r, test |-> NoResult]
    /\ model' = model + 1
    /\ log' = Append(log, Ev("train", i))
    /\ pc' = "eval"
    /\ UNCHANGED <<disk, args, train_accs, test_accs, train_losses,
                   test_losses, i, calls, start_disk, returned>>
    /\ UNCHANGED <<aggVars, esVars>>

\* test_loss, test_acc = eval_fn(...)
TTEval ==
    /\ pc = "eval"
    /\ \E r \in TestResults : epoch' = [epoch EXCEPT !.test = r]
    /\ log' = Append(log, Ev("eval", i))
    /\ pc' = "sched"
    /\ UNCHANGED <<disk, args, model, train_accs, test_accs, train_losses,
                   test_losses, i, calls, start_disk, returned>>
    /\ UNCHANGED <<aggVars, esVars>>

\* The scheduler given the test loss.
SchedMetricTestLoss(ep) == ep.test.loss

\* metrics=train_loss
SchedMetric(ep) == ep.train.loss

\* if lr_scheduler is not None: lr_scheduler.step(epoch=i, metrics=train_loss)
TTSched ==
    /\ pc = "sched"
    /\ log' = IF args.lr_scheduler
              THEN Append(log, [Ev("sched", i) EXCEPT !.metrics = SchedMetric(epoch)])
              ELSE log
    /\ pc' = "append"
    /\ UNCHANGED <<disk, args, model, train_accs, test_accs, train_losses,
                   test_losses, i, epoch, calls, start_disk, returned>>
    /\ UNCHANGED <<aggVars, esVars>>

\* The print and the four appends.
TTAppend ==
    /\ pc = "append"
    /\ train_losses' = Append(train_losses, epoch.train.loss)
    /\ train_accs' = Append(train_accs, epoch.train.acc)
    /\ test_losses' = Append(test_losses, epoch.test.loss)
    /\ test_accs' = Append(test_accs, epoch.test.acc)
    /\ log' = Append(log, Ev("append", i))
    /\ pc' = "save_model"
    /\ UNCHANGED <<disk, args, model, i, epoch, calls, start_disk, returned>>
    /\ UNCHANGED <<aggVars, esVars>>

\* torch.save(model.state_dict(), save_path + "model.pt")
TTSaveModel ==
    /\ pc = "save_model"
    /\ IF args.save_path # "None"
       THEN /\ disk' = [disk EXCEPT !.model_pt = [exists |-> TRUE, state |-> model]]
            /\ log' = Append(log, Ev("save_model", i))
            /\ pc' = "save_metrics"
       ELSE /\ UNCHANGED <<disk, log>>
            /\ pc' = "plot"
    /\ UNCHANGED <<args, model, train_accs, test_accs, train_losses,
                   test_losses, i, epoch, calls, start_disk, returned>>
    /\ UNCHANGED <<aggVars, esVars>>

\* The tuple as it was before the appends of the epoch.
PickledBeforeAppend(ta, tea, tl, tel) ==
    <<SubSeq(ta, 1, Len(ta) - 1), SubSeq(tea, 1, Len(tea) - 1),
      SubSeq(tl, 1, Len(tl) - 1), SubSeq(tel, 1, Len(tel) - 1)>>

\* The tuple with the losses first.
PickledLossesFirst(ta, tea, tl, tel) == <<tl, tel, ta, tea>>

\* The tuple pickle.dump writes.
Pickled(ta, tea, tl, tel) == <<ta, tea, tl, tel>>

\* pickle.dump((train_accs, test_accs, train_losses, test_losses), open(..., "wb"))
TTSaveMetrics ==
    /\ pc = "save_metrics"
    /\ disk' = [disk EXCEPT !.metrics_pkl =
                    [exists |-> TRUE,
                     data |-> Pickled(train_accs, test_accs, train_losses, test_losses)]]
    /\ log' = Append(log, Ev("save_metrics", i))
    /\ pc' = "plot"
    /\ UNCHANGED <<args, model, train_accs, test_accs, train_losses,
                   test_losses, i, epoch, calls, start_disk, returned>>
    /\ UNCHANGED <<aggVars, esVars>>

\* if plot: the two plot_train_test calls; then the next value of the range.
TTPlot ==
    /\ pc = "plot"
    /\ IF args.plot
       THEN IF args.save_path = "None"
            THEN pc' = "TypeError" /\ UNCHANGED <<log, i>>
            ELSE /\ log' = log \o <<Ev("plot_loss", i), Ev("plot_accuracy", i)>>
                 /\ i' = i + 1
                 /\ pc' = "loop"
       ELSE /\ log' = log
            /\ i' = i + 1
            /\ pc' = "loop"
    /\ UNCHANGED <<disk, args, model, train_accs, test_accs, train_losses,
                   test_losses, epoch, calls, start_disk, returned>>
    /\ UNCHANGED <<aggVars, esVars>>

\* A failure caught inside the loop, which goes on with the next statement.
Caught(next) == next

\* The loop body has no try/except: an exception of a collaborator leaves
\* train_test_loop, whatever statement would have come next.
Propagate(next) == "Exception"

\* train_epoch_fn raises; the pass may or may not have changed the model.
TTTrainFails ==
    /\ pc = "train"
    /\ model' \in {model, model + 1}
    /\ log' = log \o <<Ev("train", i), Ev("raise", i)>>
    /\ pc' = Propagate("eval")
    /\ UNCHANGED <<disk, args, train_accs, test_accs, train_losses,
                   test_losses, i, epoch, calls, start_disk, returned>>
    /\ UNCHANGED <<aggVars, esVars>>

\* eval_fn raises.
TTEvalFails ==
    /\ pc = "eval"
    /\ log' = log \o <<Ev("eval", i), Ev("raise", i)>>
    /\ pc' = Propagate("sched")
    /\ UNCHANGED <<disk, args, model, train_accs, test_accs, train_losses,
                   test_losses, i, epoch, calls, start_disk, returned>>
    /\ UNCHANGED <<aggVars, esVars>>

\* lr_scheduler.step raises.
TTSchedFails ==
    /\ pc = "sched"
    /\ args.lr_scheduler
    /\ log' = log \o <<[Ev("sched", i) EXCEPT !.metrics = SchedMetric(epoch)],
                        Ev("raise", i)>>
    /\ pc' = Propagate("append")
    /\ UNCHANGED <<disk, args, model, train_accs, test_accs, train_losses,
                   test_losses, i, epoch, calls, start_disk, returned>>
    /\ UNCHANGED <<aggVars, esVars>>

\* The process is interrupted: memory is lost, the disk stays as it is.
TTKill ==
    /\ pc \in Running
    /\ pc' = "killed"
    /\ UNCHANGED <<disk, args, model, train_accs, test_accs, train_losses,
                   test_losses, i, epoch, log, calls, start_disk, returned>>
    /\ UNCHANGED <<aggVars, esVars>>

TTNext ==
    \/ TTCall \/ TTAssert \/ TTResume \/ TTLoop \/ TTTrain \/ TTEval
    \/ TTSched \/ TTAppend \/ TTSaveModel \/ TTSaveMetrics \/ TTPlot \/ TTKill
    \/ TTTrainFails \/ TTEvalFails \/ TTSchedFails
\* ------------------------------------------------------------------ train_eval_test_loop
\* What the injected strategies may return for the three splits.
TrainResultsES == {Result(F(7, 16), F(1, 2))}
ValResults == {Result(F(1, 2), F(1, 2)), Result(F(1, 2), F(3, 5))}
TestResultsES == {Result(F(3, 8), F(3, 4)), Sentinel}

\* early_stopping: an int, or float("inf") (the default).
Patiences == {IntF(p) : p \in 0..MaxPatience} \cup {PosInf}

ESArgs ==
    [num_epochs : 0..MaxEpochsES, early_stopping : Patiences, lr_scheduler : BOOLEAN]

\* The locals of one call of train_eval_test_loop.
ESStart(a) ==
    [pc |-> "enter", args |-> a,
     train_accs |-> <<>>, val_accs |-> <<>>, test_accs |-> <<>>,
     train_losses |-> <<>>, val_losses |-> <<>>, test_losses |-> <<>>,
     max_val_acc |-> NegInf, num_not_max |-> 0, i |-> 0, new_flag |-> FALSE,
     train |-> NoResult, val |-> NoResult, test |-> NoResult,
     log |-> <<>>]

ESNone == [ESStart([num_epochs |-> 0, early_stopping |-> PosInf, lr_scheduler |-> FALSE])
              EXCEPT !.pc = "idle"]

ESIdle == es = ESNone /\ es2 = ESNone

\* The six empty lists, max_val_acc = float("-inf"), num_not_max = 0 and the
\* first value of range(1+len(train_accs), num_epochs+1).
ESEnter(s) ==
    [s EXCEPT !.max_val_acc = NegInf, !.num_not_max = 0,
              !.i = FirstEpoch(s.train_accs), !.pc = "loop"]

\* The check with > in place of >=.
ShouldStopStrict(num_not_max, early_stopping) == FGreater(IntF(num_not_max), early_stopping)

\* if num_not_max >= early_stopping
ShouldStop(num_not_max, early_stopping) == FGeq(IntF(num_not_max), early_stopping)

\* The head of the loop with a range that ends one value later.
ESLoopOneMore(s) ==
    IF s.i > s.args.num_epochs + 1
    THEN [s EXCEPT !.pc = "returned"]
    ELSE IF ShouldStop(s.num_not_max, s.args.early_stopping)
         THEN [s EXCEPT !.pc = "returned",
                        !.log = Append(@, Ev("print_early_stopping", s.i))]
         ELSE [s EXCEPT !.pc = "train", !.log = Append(@, Ev("check", s.i))]

\* The head of the loop: the range is exhausted, or the early-stopping check.
ESLoop(s) ==
    IF s.i > s.args.num_epochs
    THEN [s EXCEPT !.pc = "returned"]
    ELSE IF ShouldStop(s.num_not_max, s.args.early_stopping)
         THEN [s EXCEPT !.pc = "returned",
                        !.log = Append(@, Ev("print_early_stopping", s.i))]
         ELSE [s EXCEPT !.pc = "train", !.log = Append(@, Ev("check", s.i))]

ESTrain(s, r) ==
    [s EXCEPT !.train = r, !.log = Append(@, Ev("train", s.i)), !.pc = "val"]

ESVal(s, r) ==
    [s EXCEPT !.val = r, !.log = Append(@, Ev("val", s.i)), !.pc = "test"]

ESTest(s, r) ==
    [s EXCEPT !.test = r, !.log = Append(@, Ev("test", s.i)), !.pc = "update"]

\* The update with >= in place of >: a tie counts as an improvement.
UpdateOnTie(max_val_acc, num_not_max, val_acc) ==
    IF FGeq(val_acc, max_val_acc)
    THEN [max_val_acc |-> val_acc, num_not_max |-> 0, new_flag |-> TRUE]
    ELSE [max_val_acc |-> max_val_acc, num_not_max |-> num_not_max + 1,
          new_flag |-> FALSE]

\* The update without `num_not_max = 0`.
UpdateNoReset(max_val_acc, num_not_max, val_acc) ==
    IF FGreater(val_acc, max_val_acc)
    THEN [max_val_acc |-> val_acc, num_not_max |-> num_not_max, new_flag |-> TRUE]
    ELSE [max_val_acc |-> max_val_acc, num_not_max |-> num_not_max + 1,
          new_flag |-> FALSE]

\* if val_acc > max_val_acc: ... else: ...
Update(max_val_acc, num_not_max, val_acc) ==
    IF FGreater(val_acc, max_val_acc)
    THEN [max_val_acc |-> val_acc, num_not_max |-> 0, new_flag |-> TRUE]
    ELSE [max_val_acc |-> max_val_acc, num_not_max |-> num_not_max + 1,
          new_flag |-> FALSE]

\* The update reading the test accuracy.
TrackedTest(s) == s.test.acc

\* The accuracy the early-stopping update reads.
Tracked(s) == s.val.acc

ESUpdate(s) ==
    LET u == Update(s.max_val_acc, s.num_not_max, Tracked(s))
    IN  [s EXCEPT !.max_val_acc = u.max_val_acc, !.num_not_max = u.num_not_max,
                  !.new_flag = u.new_flag, !.pc = "sched"]

ESSched(s) ==
    [s EXCEPT !.log = IF s.args.lr_scheduler
                      THEN Append(@, [Ev("sched", s.i) EXCEPT !.metrics = s.train.loss])
                      ELSE @,
              !.pc = "append"]

\* The appends with the test accuracy inserted at the front of its list.
ESAppendTestFirst(s) ==
    [s EXCEPT !.train_losses = Append(@, s.train.loss),
              !.train_accs = Append(@, s.train.acc),
              !.val_losses = Append(@, s.val.loss),
              !.val_accs = Append(@, s.val.acc),
              !.test_losses = Append(@, s.test.loss),
              !.test_accs = <<s.test.acc>> \o @,
              !.log = Append(@, Ev("append", s.i)),
              !.i = s.i + 1,
              !.pc = "loop"]

\* The print, the six appends and the next value of the range.
ESAppend(s) ==
    [s EXCEPT !.train_losses = Append(@, s.train.loss),
              !.train_accs = Append(@, s.train.acc),
              !.val_losses = Append(@, s.val.loss),
              !.val_accs = Append(@, s.val.acc),
              !.test_losses = Append(@, s.test.loss),
              !.test_accs = Append(@, s.test.acc),
              !.log = Append(@, Ev("append", s.i)),
              !.i = s.i + 1,
              !.pc = "loop"]

ESInit == es \in {ESStart(a) : a \in ESArgs} /\ es2 = ESNone

ESDoEnter ==
    /\ es.pc = "enter" /\ es' = ESEnter(es)
    /\ UNCHANGED <<es2, aggVars, ttVars>>
ESDoLoop ==
    /\ es.pc = "loop" /\ es' = ESLoop(es)
    /\ UNCHANGED <<es2, aggVars, ttVars>>
ESDoTrain ==
    /\ es.pc = "train" /\ \E r \in TrainResultsES : es' = ESTrain(es, r)
    /\ UNCHANGED <<es2, aggVars, ttVars>>
ESDoVal ==
    /\ es.pc = "val" /\ \E r \in ValResults : es' = ESVal(es, r)
    /\ UNCHANGED <<es2, aggVars, ttVars>>
ESDoTest ==
    /\ es.pc = "test" /\ \E r \in TestResultsES : es' = ESTest(es, r)
    /\ UNCHANGED <<es2, aggVars, ttVars>>
ESDoUpdate ==
    /\ es.pc = "update" /\ es' = ESUpdate(es)
    /\ UNCHANGED <<es2, aggVars, ttVars>>
ESDoSched ==
    /\ es.pc = "sched" /\ es' = ESSched(es)
    /\ UNCHANGED <<es2, aggVars, ttVars>>
ESDoAppend ==
    /\ es.pc = "append" /\ es' = ESAppend(es)
    /\ UNCHANGED <<es2, aggVars, ttVars>>

ESNext ==
    \/ ESDoEnter \/ ESDoLoop \/ ESDoTrain \/ ESDoVal \/ ESDoTest
    \/ ESDoUpdate \/ ESDoSched \/ ESDoAppend

\* Two runs with the same arguments that are given the same train and
\* validation results and, independently, any test results.
PairInit == \E a \in ESArgs : es = ESStart(a) /\ es2 = ESStart(a)

PairEnter ==
    /\ es.pc = "enter" /\ es2.pc = "enter"
    /\ es' = ESEnter(es) /\ es2' = ESEnter(es2)
    /\ UNCHANGED <<aggVars, ttVars>>
PairLoop ==
    /\ es.pc = "loop" /\ es2.pc = "loop"
    /\ es' = ESLoop(es) /\ es2' = ESLoop(es2)
    /\ UNCHANGED <<aggVars, ttVars>>
PairTrain ==
    /\ es.pc = "train" /\ es2.pc = "train"
    /\ \E r \in TrainResultsES : es' = ESTrain(es, r) /\ es2' = ESTrain(es2, r)
    /\ UNCHANGED <<aggVars, ttVars>>
PairVal ==
    /\ es.pc = "val" /\ es2.pc = "val"
    /\ \E r \in ValResults : es' = ESVal(es, r) /\ es2' = ESVal(es2, r)
    /\ UNCHANGED <<aggVars, ttVars>>
PairTest ==
    /\ es.pc = "test" /\ es2.pc = "test"
    /\ \E r1 \in TestResultsES, r2 \in TestResultsES :
          es' = ESTest(es, r1) /\ es2' = ESTest(es2, r2)
    /\ UNCHANGED <<aggVars, ttVars>>
PairUpdate ==
    /\ es.pc = "update" /\ es2.pc = "update"
    /\ es' = ESUpdate(es) /\ es2' = ESUpdate(es2)
    /\ UNCHANGED <<aggVars, ttVars>>
PairSched ==
    /\ es.pc = "sched" /\ es2.pc = "sched"
    /\ es' = ESSched(es) /\ es2' = ESSched(es2)
    /\ UNCHANGED <<aggVars, ttVars>>
PairAppend ==
    /\ es.pc = "append" /\ es2.pc = "append"
    /\ es' = ESAppend(es) /\ es2' = ESAppend(es2)
    /\ UNCHANGED <<aggVars, ttVars>>

PairNext ==
    \/ PairEnter \/ PairLoop \/ PairTrain \/ PairVal \/ PairTest
    \/ PairUpdate \/ PairSched \/ PairAppend

\* ------------------------------------------------------------------ specifications
\* One call of an aggregator over a loader.
InitAgg == AggInit /\ TTIdle /\ ESIdle
SpecAgg == InitAgg /\ [][AggNext]_vars

\* Calls of train_test_loop against one checkpoint location.
InitTT == AggIdle /\ TTIdle /\ ESIdle
SpecTT == InitTT /\ [][TTNext]_vars

\* One call of train_eval_test_loop.
InitES == AggIdle /\ TTIdle /\ ESInit
SpecES == InitES /\ [][ESNext]_vars

\* The same call, which keeps running: the loop is sequential code and
\* every strategy and scheduler call returns.
SpecESFair == InitES /\ [][ESNext]_vars /\ WF_vars(ESNext)

\* Two calls of train_eval_test_loop side by side.
InitPair == AggIdle /\ TTIdle /\ PairInit
SpecPair == InitPair /\ [][PairNext]_vars

\* Either loop: calls of train_test_loop, or one call of train_eval_test_loop.
Init == AggIdle /\ TTIdle /\ (ESIdle \/ ESInit)
Next == TTNext \/ ESNext
Spec == Init /\ [][Next]_vars
\* ------------------------------------------------------------------ properties: aggregators
RECURSIVE SumSizes(_)
SumSizes(q) == IF q = <<>> THEN 0 ELSE q[1].size + SumSizes(Tail(q))

RECURSIVE SumCorrect(_)
SumCorrect(q) == IF q = <<>> THEN 0 ELSE q[1].correct + SumCorrect(Tail(q))

\* The sum of the per-batch losses as an unreduced fraction <<n, d>>.
RECURSIVE SumLosses(_)
SumLosses(q) ==
    IF q = <<>> THEN <<0, 1>>
    ELSE LET r == SumLosses(Tail(q))
         IN  <<q[1].loss.n * r[2] + r[1] * q[1].loss.d, q[1].loss.d * r[2]>>

\* C7: when the loader yields 0 samples in total (no batch, or only empty
\* batches), each of the four aggregators returns exactly (0, 1), whatever
\* normalise_loss is, and performs no division by the sample count.
C7_EmptyLoaderSentinel ==
    (pcA = "done" /\ SumSizes(loader) = 0) =>
        /\ ret.loss = [k |-> "fin", n |-> 0, d |-> 1]
        /\ ret.acc = [k |-> "fin", n |-> 1, d |-> 1]
        /\ ndiv = 0

\* A train aggregator has returned over two empty batches with normalise_loss set.
C7_Witness ==
    /\ pcA = "done" /\ fn = "train_epoch_coordvit" /\ normalise_loss
    /\ Len(loader) = 2 /\ SumSizes(loader) = 0 /\ opt_steps = 2
    /\ ret.acc.n = 1

\* C8: over a loader of at least one sample, accuracy = (sum of correct) /
\* (sum of sizes), in [0, 1]; loss = the sum of the batch losses when
\* normalise_loss is false and that sum divided by the sample count, once,
\* when it is true (sizes 3 and 5, losses 1.5 and 2.0: 3.5 and 0.4375).
C8_EpochAggregation ==
    (pcA = "done" /\ SumSizes(loader) > 0) =>
        LET n == SumSizes(loader)
            c == SumCorrect(loader)
            l == SumLosses(loader)
        IN  /\ ret.acc.k = "fin" /\ ret.loss.k = "fin"
            /\ ret.acc.n * n = c * ret.acc.d
            /\ 0 <= ret.acc.n /\ ret.acc.n <= ret.acc.d
            /\ ~normalise_loss => ret.loss.n * l[2] = l[1] * ret.loss.d
            /\ normalise_loss => ret.loss.n * l[2] * n = l[1] * ret.loss.d
            /\ ndiv = (IF normalise_loss THEN 2 ELSE 1)
            /\ ( /\ Len(loader) = 2
                 /\ loader[1].size = 3 /\ loader[1].loss = [k |-> "fin", n |-> 3, d |-> 2]
                 /\ loader[2].size = 5 /\ loader[2].loss = [k |-> "fin", n |-> 2, d |-> 1] )
               => ret.loss = (IF normalise_loss
                              THEN [k |-> "fin", n |-> 7, d |-> 16]
                              ELSE [k |-> "fin", n |-> 7, d |-> 2])

\* eval has returned 0.4375 for the batches (3, 1.5) and (5, 2.0).
C8_Witness ==
    /\ pcA = "done" /\ fn = "eval" /\ normalise_loss
    /\ Len(loader) = 2 /\ loader[1].size = 3 /\ loader[2].size = 5
    /\ loader[1].loss.n = 3 /\ loader[2].loss.n = 2
    /\ ret.loss = [k |-> "fin", n |-> 7, d |-> 16]
    /\ ret.acc = [k |-> "fin", n |-> 1, d |-> 2]
\* ------------------------------------------------------------------ properties: early stopping
\* stall >= patience, for an int stall and a patience that is an int or +inf.
StallReached(stall, patience) == patience.k = "fin" /\ stall * patience.d >= patience.n

\* v > b for an accuracy v and a best value b that is an accuracy or -inf.
Improves(v, b) == b.k = "-inf" \/ (b.k = "fin" /\ v.n * b.d > b.n * v.d)

Histories(s) ==
    <<s.train_losses, s.train_accs, s.val_losses, s.val_accs, s.test_losses, s.test_accs>>

PassOps == {"train", "val", "test", "sched", "append"}

PassEvents(q) == SelectSeq(q, LAMBDA e : e.op \in PassOps)

\* C3: the early-stopping check is made at the top of each epoch, before
\* any pass of it; when stall_count >= patience the loop ends at once: that
\* epoch runs no pass, steps no scheduler and appends nothing; patience 0
\* executes no epoch.
C3_InsideEpoch ==
    /\ es.pc \in {"train", "val", "test", "update"}
          => ~StallReached(es.num_not_max, es.args.early_stopping)
    /\ es.args.early_stopping = [k |-> "fin", n |-> 0, d |-> 1]
          => (PassEvents(es.log) = <<>> /\ Histories(es) = <<<<>>, <<>>, <<>>, <<>>, <<>>, <<>>>>)

C3_AtLoopHead ==
    ( /\ es.pc = "loop" /\ es.i <= es.args.num_epochs
      /\ StallReached(es.num_not_max, es.args.early_stopping) )
    => /\ es'.pc = "returned"
       /\ Histories(es') = Histories(es)
       /\ PassEvents(es'.log) = PassEvents(es.log)
       /\ es'.i = es.i /\ es'.num_not_max = es.num_not_max
       /\ es'.max_val_acc = es.max_val_acc

C3_EarlyStoppingCheck == [](C3_InsideEpoch) /\ [][C3_AtLoopHead]_vars

\* The loop has stopped early after 2 epochs with epochs left to run.
C3_Witness ==
    /\ es.pc = "returned" /\ es.i = 3 /\ es.args.num_epochs = 4
    /\ es.args.early_stopping = IntF(1) /\ es.num_not_max = 1
    /\ Len(es.val_accs) = 2
    /\ es.log[Len(es.log)].op = "print_early_stopping"

\* C4: the update after an executed epoch: a validation accuracy strictly
\* greater than best_value becomes best_value, resets stall_count to 0 and
\* flags the epoch; anything else (a tie included) leaves best_value and
\* adds exactly 1 to stall_count. best_value starts at -inf, so the first
\* executed epoch is an improvement.
C4_UpdateStep ==
    /\ es.pc = "update" =>
          IF Improves(es.val.acc, es.max_val_acc)
          THEN /\ es'.max_val_acc = es.val.acc
               /\ es'.num_not_max = 0
               /\ es'.new_flag
          ELSE /\ es'.max_val_acc = es.max_val_acc
               /\ es'.num_not_max = es.num_not_max + 1
               /\ ~es'.new_flag
    /\ es.pc \in {"loop", "train", "val", "test", "sched", "append"} =>
          (es'.max_val_acc = es.max_val_acc /\ es'.num_not_max = es.num_not_max)

C4_FirstEpoch ==
    /\ (es.i = 1 /\ es.pc \in {"loop", "train", "val", "test", "update"})
          => (es.max_val_acc = [k |-> "-inf", n |-> -1, d |-> 0] /\ es.num_not_max = 0)
    /\ (es.i = 1 /\ es.pc \in {"sched", "append"})
          => (es.new_flag /\ es.num_not_max = 0 /\ es.max_val_acc = es.val.acc)

C4_EarlyStoppingUpdate == [](C4_FirstEpoch) /\ [][C4_UpdateStep]_vars

\* An epoch whose validation accuracy ties best_value has been counted as a stall.
C4_Witness ==
    /\ es.pc = "sched" /\ es.i = 2
    /\ es.val.acc = es.max_val_acc /\ es.val_accs = <<es.val.acc>>
    /\ ~es.new_flag /\ es.num_not_max = 1

\* Epoch j of vals is a strict improvement on all epochs before it.
ImprovesAt(vals, j) ==
    \A m \in 1..(j - 1) : vals[j].n * vals[m].d > vals[m].n * vals[j].d

\* The number of epochs since the last strict improvement.
SinceImprovement(vals) ==
    IF vals = <<>> THEN 0
    ELSE Len(vals) - (CHOOSE j \in 1..Len(vals) :
                        /\ ImprovesAt(vals, j)
                        /\ \A m \in (j + 1)..Len(vals) : ~ImprovesAt(vals, m))

\* b is the maximum of vals (-inf for no value).
IsMaxOf(b, vals) ==
    IF vals = <<>> THEN b.k = "-inf"
    ELSE /\ \E j \in 1..Len(vals) : vals[j] = b
         /\ \A j \in 1..Len(vals) : vals[j].n * b.d <= b.n * vals[j].d

\* The last p epochs of vals are p consecutive epochs without improvement.
StalledFor(vals, p) ==
    /\ Len(vals) >= p
    /\ \A j \in (Len(vals) - p + 1)..Len(vals) : ~ImprovesAt(vals, j)

\* C5: after each executed epoch stall_count is the number of consecutive
\* epochs since the last strict improvement and best_value the maximum
\* validation accuracy so far; for a finite patience p >= 1 the stop
\* condition is true exactly once p consecutive epochs have not improved,
\* and was true after no earlier epoch ([0.5, 0.6, 0.6, 0.6], p = 2: true
\* after the 4th value and not before, best_value 0.6).
C5_StallCountOverSequence ==
    es.pc \in {"loop", "returned"} =>
        LET vals == es.val_accs
            p == es.args.early_stopping
        IN  /\ es.num_not_max = SinceImprovement(vals)
            /\ IsMaxOf(es.max_val_acc, vals)
            /\ (p.k = "fin" /\ p.n >= 1) =>
                  /\ (es.num_not_max >= p.n) <=> StalledFor(vals, p.n)
                  /\ \A m \in 0..(Len(vals) - 1) : ~StalledFor(SubSeq(vals, 1, m), p.n)
            /\ ( /\ p = [k |-> "fin", n |-> 2, d |-> 1]
                 /\ Len(vals) = 4
                 /\ vals[1] = [k |-> "fin", n |-> 1, d |-> 2]
                 /\ \A j \in 2..4 : vals[j] = [k |-> "fin", n |-> 3, d |-> 5] )
               => /\ es.num_not_max >= 2
                  /\ es.max_val_acc = [k |-> "fin", n |-> 3, d |-> 5]

\* The run of [0.5, 0.6, 0.6, 0.6] with patience 2 is at the end of its 4th epoch.
C5_Witness ==
    /\ es.pc = "loop" /\ es.i = 5
    /\ es.args.early_stopping = IntF(2)
    /\ es.val_accs = <<F(1, 2), F(3, 5), F(3, 5), F(3, 5)>>
    /\ es.num_not_max = 2 /\ es.max_val_acc = F(3, 5)

\* C10: two runs with the same num_epochs and patience and the same
\* validation accuracies, whatever their test losses and accuracies,
\* execute the same epochs and have the same best_value and stall_count.
C10_TestMetricsIgnored ==
    ( /\ es.args = es2.args
      /\ es.val_accs = es2.val_accs /\ es.val = es2.val )
    => /\ es.pc = es2.pc /\ es.i = es2.i
       /\ Len(es.train_accs) = Len(es2.train_accs)
       /\ es.max_val_acc = es2.max_val_acc
       /\ es.num_not_max = es2.num_not_max

\* Two runs that differ in every test accuracy have both stopped early after 3 epochs.
C10_Witness ==
    /\ es.pc = "returned" /\ es2.pc = "returned"
    /\ Len(es.test_accs) = 3 /\ es.args.num_epochs = 4
    /\ \A j \in 1..3 : es.test_accs[j] # es2.test_accs[j]
    /\ es.num_not_max = 2 /\ es2.num_not_max = 2
\* ------------------------------------------------------------------ properties: train_test_loop
\* The epochs of the events `op` of this call, in order.
EpochsOf(q, op) ==
    LET evs == SelectSeq(q, LAMBDA e : e.op = op)
    IN  [j \in 1..Len(evs) |-> evs[j].epoch]

HasEvent(q, op) == \E j \in 1..Len(q) : q[j].op = op

\* The checkpoint location holds both artifacts, the histories of k >= 1 epochs.
Persisted(d, k) ==
    /\ d.model_pt.exists /\ d.metrics_pkl.exists
    /\ k >= 1
    /\ \A h \in 1..4 : Len(d.metrics_pkl.data[h]) = k

\* C1: a call against a save_path that holds the model and the histories
\* of k completed epochs, with num_epochs = n > k, loads both, executes
\* exactly the epochs k+1..n, each once and in order, and returns four
\* histories of length n whose first k entries are the persisted ones.
C1_Resume ==
    LET k == Len(start_disk.metrics_pkl.data[1])
        n == args.num_epochs
        saved == start_disk.metrics_pkl.data
    IN  ( /\ pc = "returned" /\ args.save_path # "None"
          /\ Persisted(start_disk, k) /\ n > k )
        => /\ HasEvent(log, "load_model") /\ HasEvent(log, "load_metrics")
           /\ model = start_disk.model_pt.state + (n - k)
           /\ EpochsOf(log, "train") = [j \in 1..(n - k) |-> k + j]
           /\ EpochsOf(log, "eval") = [j \in 1..(n - k) |-> k + j]
           /\ \A h \in 1..4 : Len(returned[h]) = n
           /\ SubSeq(returned[1], 1, k) = saved[3]
           /\ SubSeq(returned[2], 1, k) = saved[1]
           /\ SubSeq(returned[3], 1, k) = saved[4]
           /\ SubSeq(returned[4], 1, k) = saved[2]

\* A second call has resumed from a checkpoint of 1 epoch and returned after epoch 3.
C1_Witness ==
    /\ pc = "returned" /\ calls = 2 /\ args.save_path = "ckpt/"
    /\ Persisted(start_disk, 1) /\ start_disk.model_pt.state = 1
    /\ args.num_epochs = 3
    /\ Len(returned[1]) = 3 /\ model = 3
    /\ returned[2][1] # returned[2][2]

\* Exactly one of model.pt and metrics.pkl exists.
OneArtifact(d) == d.model_pt.exists # d.metrics_pkl.exists

\* C2: a call against a save_path that holds only one of model.pt and
\* metrics.pkl fails before any epoch: it never gets past the resume
\* block to the loop.
C2_FailFastOnOneArtifact ==
    (args.save_path # "None" /\ OneArtifact(start_disk))
        => pc \in {"assert", "resume", "killed", "CorruptCheckpoint"}

\* C6: a call with plot set and no save_path fails on entry: no epoch is
\* executed, nothing is created at or read from a checkpoint location, the
\* model is not trained and no history entry exists.
C6_PlotNeedsSavePath ==
    (calls > 0 /\ args.plot /\ args.save_path = "None")
        => /\ pc \in {"assert", "AssertionError", "killed"}
           /\ log = <<>>
           /\ disk = start_disk
           /\ model = 0
           /\ train_accs = <<>> /\ test_accs = <<>>
           /\ train_losses = <<>> /\ test_losses = <<>>
           /\ returned = <<<<>>, <<>>, <<>>, <<>>>>

\* The call has raised AssertionError beside an existing checkpoint.
C6_Witness ==
    /\ pc = "AssertionError" /\ args.plot /\ args.save_path = "None"
    /\ args.num_epochs = 2
    /\ disk.model_pt.exists /\ disk.metrics_pkl.exists

\* ------------------------------------------------------------------ properties: histories
TTHistories == <<train_losses, train_accs, test_losses, test_accs>>

TTEpochMetrics == <<epoch.train.loss, epoch.train.acc, epoch.test.loss, epoch.test.acc>>

ESEpochMetrics(s) ==
    <<s.train.loss, s.train.acc, s.val.loss, s.val.acc, s.test.loss, s.test.acc>>

\* The epochs the checkpoint restored into this call.
Restored ==
    IF HasEvent(log, "load_metrics") THEN Len(start_disk.metrics_pkl.data[1]) ELSE 0

C9_AtBoundary ==
    /\ pc \in {"loop", "returned"} =>
          /\ \A h \in 1..4 : Len(TTHistories[h]) = Restored + Len(EpochsOf(log, "train"))
          /\ Len(train_accs) = i - 1
    /\ es.pc \in {"loop", "returned"} =>
          /\ \A h \in 1..6 : Len(Histories(es)[h]) = Len(EpochsOf(es.log, "train"))
          /\ Len(es.train_accs) = es.i - 1

C9_Step ==
    /\ pc \in (Running \ {"resume"}) =>
          \/ TTHistories' = TTHistories
          \/ /\ \A h \in 1..4 :
                    /\ TTHistories'[h] = Append(TTHistories[h], TTEpochMetrics[h])
                    /\ Len(TTHistories'[h]) = i
              /\ LET t == EpochsOf(log, "train") IN t[Len(t)] = i
    /\ es.pc \notin {"idle", "enter"} =>
          \/ Histories(es') = Histories(es)
          \/ /\ \A h \in 1..6 :
                    /\ Histories(es')[h] = Append(Histories(es)[h], ESEpochMetrics(es)[h])
                    /\ Len(Histories(es')[h]) = es.i
              /\ LET t == EpochsOf(es.log, "train") IN t[Len(t)] = es.i

\* C9: in both loops, at every epoch boundary all histories have the same
\* length, the number of epochs completed so far (restored ones included);
\* a step of the loop leaves every history as it is or appends to each the
\* metric of the epoch just executed, at the index of that epoch: no
\* existing entry is modified, reordered or removed.
C9_MetricHistories == [](C9_AtBoundary) /\ [][C9_Step]_vars

\* A resumed train_test_loop call is at the boundary after epoch 3, 2 epochs restored.
C9_Witness ==
    /\ pc = "loop" /\ i = 4 /\ Restored = 2
    /\ Len(train_accs) = 3 /\ Len(test_losses) = 3
    /\ train_accs[3] # train_accs[2]

\* ------------------------------------------------------------------ properties: termination
C11_Bounded ==
    /\ Len(EpochsOf(es.log, "train")) <= es.args.num_epochs
    /\ es.pc = "returned" =>
          LET done == Len(es.train_accs)
          IN  /\ \A h \in 1..6 : Len(Histories(es)[h]) = done
              /\ done = Len(EpochsOf(es.log, "train"))
              /\ es.args.early_stopping.k = "inf" => done = es.args.num_epochs
              /\ done < es.args.num_epochs
                    => /\ es.args.early_stopping.k = "fin"
                       /\ es.num_not_max * es.args.early_stopping.d
                             >= es.args.early_stopping.n

\* C11: train_eval_test_loop always returns, after at most num_epochs
\* epochs; with patience +inf it executes exactly num_epochs epochs
\* whatever the validation accuracies; however it ends, it returns six
\* histories of one length, the number of epochs executed.
C11_Termination == <>(es.pc = "returned") /\ [](C11_Bounded)

\* A call with patience +inf has returned after all 4 epochs, the last 3 without improvement.
C11_Witness ==
    /\ es.pc = "returned" /\ es.args.early_stopping = PosInf
    /\ es.args.num_epochs = 4 /\ Len(es.test_losses) = 4
    /\ es.num_not_max = 3

\* ------------------------------------------------------------------ properties: the passes compared
\* C12: eval and eval_coordvit never step the optimizer and never change
\* the model's parameters, so the same eval pass made twice over the same
\* loader, with nothing between the two, returns the same (loss, accuracy).
C12_EvalReadOnly ==
    /\ (fn \in {"eval", "eval_coordvit"} /\ pcA # "enter")
          => /\ opt_steps = 0 /\ updates = <<>>
             /\ params = 0
             /\ mode = "eval"
    /\ (call_no = 2 /\ first.fn = fn /\ pcA = "done")
          => /\ ret = first.ret
             /\ first.opt_steps = 0 /\ first.updates = <<>>

\* eval has returned for the second time over two non-empty batches.
C12_Witness ==
    /\ call_no = 2 /\ first.fn = "eval" /\ fn = "eval" /\ pcA = "done"
    /\ Len(loader) = 2 /\ loader[1].size = 3 /\ loader[2].size = 5
    /\ loader[1].correct = 1 /\ loader[2].correct = 4
    /\ ret = first.ret /\ ret.acc = [k |-> "fin", n |-> 5, d |-> 8]

\* C13: on loaders that carry the same inputs and labels in the same
\* order, for a model that ignores coordinates and mask, each
\* coordinate-aware pass returns the same (loss, accuracy) as the standard
\* pass and applies the same sequence of optimizer updates, for both
\* values of normalise_loss.
C13_StrategyEquivalence ==
    (call_no = 2 /\ first.fn # fn /\ pcA = "done")
        => /\ ret = first.ret
           /\ updates = first.updates
           /\ opt_steps = first.opt_steps

\* train_epoch_coordvit has returned after train_epoch over the same two batches.
C13_Witness ==
    /\ call_no = 2 /\ first.fn = "train_epoch" /\ fn = "train_epoch_coordvit"
    /\ pcA = "done" /\ ~normalise_loss
    /\ Len(loader) = 2 /\ loader[1].size = 3 /\ loader[2].size = 5
    /\ Len(updates) = 2 /\ updates[2].params = 1
    /\ ret = first.ret /\ ret.loss = [k |-> "fin", n |-> 7, d |-> 2]

\* ------------------------------------------------------------------ properties: the checkpoint
\* C14: whenever a run is interrupted, model.pt and metrics.pkl stand for
\* the same number of completed epochs, and a run never holds a model
\* trained for more or fewer epochs than its histories record.
C14_CheckpointAtomic ==
    /\ pc = "killed" =>
          /\ disk.model_pt.exists = disk.metrics_pkl.exists
          /\ disk.model_pt.state = Len(disk.metrics_pkl.data[1])
    /\ (pc = "loop" /\ args.save_path # "None") => model = Len(train_accs)

\* C15: with save_path set, once the checkpoint of epoch i is written the
\* persisted histories are the in-memory histories, all of length i, and
\* the persisted parameters are those of the model after the training of
\* epoch i; this stays so up to the next epoch's appends. The files hold
\* that one snapshot, nothing older.
C15_CheckpointMirror ==
    LET mirror ==
          /\ disk.model_pt = [exists |-> TRUE, state |-> model]
          /\ disk.metrics_pkl =
                [exists |-> TRUE,
                 data |-> <<train_accs, test_accs, train_losses, test_losses>>]
    IN  /\ (args.save_path # "None" /\ pc = "plot")
              => /\ mirror
                 /\ \A h \in 1..4 : Len(disk.metrics_pkl.data[h]) = i
        /\ ( /\ args.save_path # "None"
             /\ pc \in {"loop", "train", "eval", "sched", "returned"}
             /\ HasEvent(log, "save_metrics") )
              => /\ disk.metrics_pkl =
                       [exists |-> TRUE,
                        data |-> <<train_accs, test_accs, train_losses, test_losses>>]
                 /\ disk.model_pt.exists
                 /\ pc \in {"loop", "train", "returned"} => disk.model_pt.state = model
                 /\ \A h \in 1..4 : Len(disk.metrics_pkl.data[h]) = i - 1

\* A resumed call has just written the checkpoint of epoch 3 over that of epoch 2.
C15_Witness ==
    /\ pc = "plot" /\ args.save_path = "ckpt/" /\ i = 3 /\ calls = 2
    /\ Persisted(start_disk, 2)
    /\ Len(disk.metrics_pkl.data[1]) = 3 /\ disk.model_pt.state = 3
    /\ model = 3

\* The values each history may hold, by role.
RoleValues ==
    [train_accs |-> {r.acc : r \in TrainResults},
     test_accs |-> {r.acc : r \in TestResults},
     train_losses |-> {r.loss : r \in TrainResults},
     test_losses |-> {r.loss : r \in TestResults}]

AllIn(q, S) == \A j \in 1..Len(q) : q[j] \in S

IsPrefix(p, q) == Len(p) <= Len(q) /\ SubSeq(q, 1, Len(p)) = p

\* C16: metrics.pkl holds (train_accs, test_accs, train_losses,
\* test_losses), each position with values of its own role; a call that
\* loaded it returns (train_losses, train_accs, test_losses, test_accs)
\* where each history starts with the loaded history of the same role,
\* same values, same order.
C16_RoundTripKeepsRoles ==
    /\ disk.metrics_pkl.exists =>
          /\ AllIn(disk.metrics_pkl.data[1], RoleValues.train_accs)
          /\ AllIn(disk.metrics_pkl.data[2], RoleValues.test_accs)
          /\ AllIn(disk.metrics_pkl.data[3], RoleValues.train_losses)
          /\ AllIn(disk.metrics_pkl.data[4], RoleValues.test_losses)
    /\ (pc = "returned" /\ args.save_path # "None" /\ start_disk.metrics_pkl.exists) =>
          /\ IsPrefix(start_disk.metrics_pkl.data[3], returned[1])
          /\ IsPrefix(start_disk.metrics_pkl.data[1], returned[2])
          /\ IsPrefix(start_disk.metrics_pkl.data[4], returned[3])
          /\ IsPrefix(start_disk.metrics_pkl.data[2], returned[4])
          /\ AllIn(returned[1], RoleValues.train_losses)
          /\ AllIn(returned[2], RoleValues.train_accs)
          /\ AllIn(returned[3], RoleValues.test_losses)
          /\ AllIn(returned[4], RoleValues.test_accs)

\* A call resumed from two persisted epochs has run a third and returned.
C16_Witness ==
    /\ pc = "returned" /\ args.save_path = "ckpt/" /\ calls = 2
    /\ Persisted(start_disk, 2)
    /\ Len(returned[1]) = 3
    /\ returned[2][1] # returned[2][2]
    /\ HasEvent(log, "load_metrics") /\ HasEvent(log, "save_metrics")

\* ------------------------------------------------------------------ properties: the epoch
\* The calls one epoch of train_test_loop makes, in order.
EpochSteps(e) ==
    <<Ev("train", e), Ev("eval", e)>>
    \o (IF args.lr_scheduler
        THEN <<[Ev("sched", e) EXCEPT !.metrics = train_losses[e]]>>
        ELSE <<>>)
    \o <<Ev("append", e)>>
    \o (IF args.save_path # "None"
        THEN <<Ev("save_model", e), Ev("save_metrics", e)>>
        ELSE <<>>)
    \o (IF args.plot THEN <<Ev("plot_loss", e), Ev("plot_accuracy", e)>> ELSE <<>>)

RECURSIVE EpochsSteps(_, _)
EpochsSteps(from, to) ==
    IF from > to THEN <<>> ELSE EpochSteps(from) \o EpochsSteps(from + 1, to)

\* C17: at every epoch boundary the calls made since the resume block are,
\* for each executed epoch in turn, train, eval, one scheduler step with
\* the epoch index and the train loss of that epoch (if a scheduler is
\* present), the appends, the two checkpoint writes (if save_path is set)
\* and the two plots (if enabled); inside an epoch the calls made so far
\* are the start of that sequence, so no step of a later epoch precedes a
\* step of an earlier one.
C17_OrderInsideEpoch ==
    LET r == Resume(args, start_disk, 0)
        e1 == FirstEpoch(r.metrics[1])
    IN  /\ pc \in {"loop", "returned"} =>
              log = r.log \o EpochsSteps(e1, i - 1)
        /\ pc = "plot" =>
              IsPrefix(log, r.log \o EpochsSteps(e1, i))
        /\ \A j, k \in 1..Len(log) : j < k => log[j].epoch <= log[k].epoch

\* Two epochs with scheduler, checkpoint and plots have run, with different train losses.
C17_Witness ==
    /\ pc = "returned" /\ args.lr_scheduler /\ args.plot /\ args.save_path = "ckpt/"
    /\ Len(train_losses) = 2 /\ train_losses[1] # train_losses[2]
    /\ Len(log) = 17
    /\ log[4].op = "sched" /\ log[4].metrics = train_losses[1]
    /\ log[12].op = "sched" /\ log[12].metrics = train_losses[2]

\* ------------------------------------------------------------------ properties: failures
Histories4 == <<train_accs, test_accs, train_losses, test_losses>>

CountOf(q, op, e) == Cardinality({j \in 1..Len(q) : q[j].op = op /\ q[j].epoch = e})

\* C18: when the train pass, the eval pass or the scheduler step of epoch
\* i raises, train_test_loop ends with that exception and makes no further
\* call; the collaborator that raised was called once for epoch i; the
\* four histories hold i-1 entries and none for epoch i; the step that
\* raises leaves the files untouched, so they are the checkpoint written
\* at the end of epoch i-1 (or what the location held at the start when
\* no epoch of this call completed).
C18_CollaboratorFailure ==
    /\ [](HasEvent(log, "raise") =>
            /\ pc = "Exception"
            /\ log[Len(log)].op = "raise"
            /\ log[Len(log)].epoch = i
            /\ log[Len(log) - 1].op \in {"train", "eval", "sched"}
            /\ CountOf(log, "raise", i) = 1
            /\ \A op \in {"train", "eval", "sched"} : CountOf(log, op, i) <= 1
            /\ \A op \in {"append", "save_model", "save_metrics", "plot_loss"} :
                   CountOf(log, op, i) = 0
            /\ \A h \in 1..4 : Len(Histories4[h]) = i - 1
            /\ IF HasEvent(log, "save_metrics")
               THEN /\ disk.metrics_pkl = [exists |-> TRUE, data |-> Histories4]
                    /\ disk.model_pt.exists
               ELSE /\ disk.metrics_pkl = start_disk.metrics_pkl
                    /\ disk.model_pt = start_disk.model_pt)
    /\ [](pc = "Exception" => HasEvent(log, "raise"))
    /\ [][pc' = "Exception" => (disk' = disk /\ Histories4' = Histories4)]_vars

\* The eval pass of epoch 2 raised after epoch 1 had been checkpointed.
C18_Witness ==
    /\ pc = "Exception" /\ i = 2 /\ args.save_path = "ckpt/"
    /\ log[Len(log) - 1].op = "eval"
    /\ HasEvent(log, "save_metrics")
    /\ Len(train_accs) = 1 /\ Len(disk.metrics_pkl.data[1]) = 1
    /\ disk.model_pt.state = 1 /\ model = 2

\* ------------------------------------------------------------------ properties: nothing left to do
\* C19: a call against a save_path that holds k completed epochs, with
\* num_epochs <= k, makes no call besides makedirs and the two loads (no
\* train, eval, scheduler, checkpoint write or plot), leaves both files as
\* they were, and returns the k loaded entries of each history, in role
\* order, even when k > num_epochs.
C19_NothingLeftToDo ==
    LET k == Len(start_disk.metrics_pkl.data[1])
        saved == start_disk.metrics_pkl.data
    IN  ( /\ pc \in Running \cup {"returned", "Exception", "TypeError"}
          /\ args.save_path # "None"
          /\ Persisted(start_disk, k) /\ args.num_epochs <= k )
        => /\ pc \in {"assert", "resume", "loop", "returned"}
           /\ \A j \in 1..Len(log) :
                 log[j].op \in {"makedirs", "load_model", "load_metrics"}
           /\ disk.model_pt = start_disk.model_pt
           /\ disk.metrics_pkl = start_disk.metrics_pkl
           /\ pc = "returned" =>
                 /\ returned = <<saved[3], saved[1], saved[4], saved[2]>>
                 /\ \A h \in 1..4 : Len(returned[h]) = k
                 /\ model = start_disk.model_pt.state

\* A call with num_epochs = 1 against a checkpoint of 2 epochs has returned 2 entries.
C19_Witness ==
    /\ pc = "returned" /\ calls = 2 /\ args.save_path = "ckpt/"
    /\ args.num_epochs = 1 /\ args.plot /\ args.lr_scheduler
    /\ Persisted(start_disk, 2)
    /\ Len(returned[1]) = 2
    /\ Len(log) = 3
====
